---- MODULE Spec2Model ----
(***************************************************************************)
(* Model of the Skindex server (src/index.js, the revision at lines        *)
(* 87-301): the POST /analyze handler (validation, model handle selection, *)
(* content generation with one fallback, fence stripping, JSON parsing,    *)
(* response normalization) and the POST /send-email handler (validation,   *)
(* plain-text formatting, delivery).                                       *)
(*                                                                         *)
(* JSON values are records with one shape, [t, s, n, a, o]: t is the kind  *)
(* ("undefined", "null", "bool", "num", "str", "arr", "obj"), s the string *)
(* payload, n the number (or 0/1 for a boolean), a the array elements and  *)
(* o the object's fields (a function from field names to JSON values; a    *)
(* field that is absent is not in its domain).                             *)
(***************************************************************************)
EXTENDS Integers, Sequences, FiniteSets, TLC

\* ---------------------------------------------------------------- bounds
MaxParticipants == 2   \* longest `products` array inside one source conflict
MaxConflicts == 2      \* longest `conflicts` array in a model reply
MaxEntries == 2        \* longest `products` array (request and model reply)

\* ------------------------------------------------------------ JSON values
NoFields == <<>>
Undef == [t |-> "undefined", s |-> "", n |-> 0, a |-> <<>>, o |-> NoFields]
Null == [t |-> "null", s |-> "", n |-> 0, a |-> <<>>, o |-> NoFields]
Str(x) == [t |-> "str", s |-> x, n |-> 0, a |-> <<>>, o |-> NoFields]
Num(x) == [t |-> "num", s |-> "", n |-> x, a |-> <<>>, o |-> NoFields]
Arr(x) == [t |-> "arr", s |-> "", n |-> 0, a |-> x, o |-> NoFields]
Obj(x) == [t |-> "obj", s |-> "", n |-> 0, a |-> <<>>, o |-> x]

\* obj.key in JavaScript for a value that is neither null nor undefined:
\* the field when the value is an object that has it, undefined otherwise
\* (the code never reads a built-in property such as length through Get).
Get(v, key) == IF v.t = "obj" /\ key \in DOMAIN v.o THEN v.o[key] ELSE Undef

\* obj.key = val on an object
Put(v, key, val) ==
  Obj([k \in (DOMAIN v.o) \cup {key} |-> IF k = key THEN val ELSE v.o[k]])

\* JavaScript truthiness: undefined, null, false, 0 and "" are falsy
Truthy(v) ==
  CASE v.t \in {"undefined", "null"} -> FALSE
    [] v.t \in {"bool", "num"} -> v.n # 0
    [] v.t = "str" -> v.s # ""
    [] OTHER -> TRUE

\* a || b
OrElse(v, dflt) == IF Truthy(v) THEN v ELSE dflt

IsArray(v) == v.t = "arr"

\* reading a property of null or undefined raises a TypeError
Nullish(v) == v.t \in {"undefined", "null"}

\* -------------------------------------------------- string conversions
\* The order in which JSON.stringify writes the fields of an object. The
\* model keeps objects as unordered maps, so one fixed order stands for the
\* insertion order of the parsed text.
KeyOrder ==
  << "name", "type", "description", "usageTime", "frequency", "conflictsWith",
     "products", "items", "productA", "productB", "product", "reason",
     "explanation", "recommendedRoutine", "AM", "PM", "conflicts" >>

RECURSIVE JsString(_), JoinFrom(_, _, _)

\* Array.prototype.join: null and undefined elements render as ""
JoinFrom(a, i, sep) ==
  IF i > Len(a) THEN ""
  ELSE (IF i > 1 THEN sep ELSE "")
       \o (IF Nullish(a[i]) THEN "" ELSE JsString(a[i]))
       \o JoinFrom(a, i + 1, sep)

\* String(v), the conversion a template literal applies to ${v}
JsString(v) ==
  CASE v.t = "undefined" -> "undefined"
    [] v.t = "null" -> "null"
    [] v.t = "bool" -> (IF v.n = 0 THEN "false" ELSE "true")
    [] v.t = "num" -> ToString(v.n)
    [] v.t = "str" -> v.s
    [] v.t = "arr" -> JoinFrom(v.a, 1, ",")
    [] OTHER -> "[object Object]"

Join(v, sep) == JoinFrom(v.a, 1, sep)

RECURSIVE Stringify(_), StringifyElems(_, _), StringifyFields(_, _, _)

StringifyElems(a, i) ==
  IF i > Len(a) THEN ""
  ELSE (IF i > 1 THEN "," ELSE "") \o Stringify(a[i]) \o StringifyElems(a, i + 1)

StringifyFields(o, i, first) ==
  IF i > Len(KeyOrder) THEN ""
  ELSE IF KeyOrder[i] \in DOMAIN o
       THEN (IF first THEN "" ELSE ",")
            \o "\"" \o KeyOrder[i] \o "\":" \o Stringify(o[KeyOrder[i]])
            \o StringifyFields(o, i + 1, FALSE)
       ELSE StringifyFields(o, i + 1, first)

\* JSON.stringify(v) for a value that came out of JSON.parse
Stringify(v) ==
  CASE v.t = "null" -> "null"
    [] v.t = "bool" -> (IF v.n = 0 THEN "false" ELSE "true")
    [] v.t = "num" -> ToString(v.n)
    [] v.t = "str" -> "\"" \o v.s \o "\""
    [] v.t = "arr" -> "[" \o StringifyElems(v.a, 1) \o "]"
    [] v.t = "obj" -> "{" \o StringifyFields(v.o, 1, TRUE) \o "}"
    [] OTHER -> "undefined"

\* ------------------------------------------------------ the reply text
\* The model's reply text is a sequence of tokens: "ws" (spaces), "nl" (a
\* line break), "fence" (three backticks), "word" (a run of word characters,
\* the language tag after a fence), "junk" (text that is not JSON) and
\* "json" (the text of one JSON value, j).
Tok(kind) == [k |-> kind, j |-> Undef]
JsonTok(v) == [k |-> "json", j |-> v]

IsSpace(tok) == tok.k \in {"ws", "nl"}

RECURSIVE TrimStart(_), TrimEnd(_)
TrimStart(text) ==
  IF text # <<>> /\ IsSpace(Head(text)) THEN TrimStart(Tail(text)) ELSE text
TrimEnd(text) ==
  IF text # <<>> /\ IsSpace(text[Len(text)])
  THEN TrimEnd(SubSeq(text, 1, Len(text) - 1))
  ELSE text

\* String.prototype.trim
Trim(text) == TrimEnd(TrimStart(text))

\* text.startsWith("```")
StartsWithFence(text) == text # <<>> /\ Head(text).k = "fence"

\* text.replace(/^```(\w*)\n/, ''): removes a leading fence with its optional
\* language tag only when a line break follows them
StripOpeningFence(text) ==
  IF Len(text) >= 2 /\ text[1].k = "fence" /\ text[2].k = "nl"
  THEN SubSeq(text, 3, Len(text))
  ELSE IF Len(text) >= 3 /\ text[1].k = "fence" /\ text[2].k = "word"
          /\ text[3].k = "nl"
       THEN SubSeq(text, 4, Len(text))
       ELSE text

\* text.replace(/```$/, ''): removes a fence that ends the text
StripClosingFence(text) ==
  IF text # <<>> /\ text[Len(text)].k = "fence"
  THEN SubSeq(text, 1, Len(text) - 1)
  ELSE text

\* lines 179-180
CleanText(raw) ==
  LET text == Trim(raw)
  IN  IF StartsWithFence(text)
      THEN StripClosingFence(StripOpeningFence(text))
      ELSE text

\* JSON.parse(text): succeeds when the text is one JSON value, with optional
\* white space around it; raises a SyntaxError otherwise
ParseJson(text) ==
  LET core == Trim(text)
  IN  IF Len(core) = 1 /\ core[1].k = "json"
      THEN [threw |-> FALSE, json |-> core[1].j]
      ELSE [threw |-> TRUE, json |-> Undef]

\* ------------------------------------------------------ normalization
Threw == [threw |-> TRUE, json |-> Undef]
Value(v) == [threw |-> FALSE, json |-> v]

\* x.map(f) raises a TypeError unless x is an array (a string, a number or
\* an object parsed from JSON has no callable map, undefined and null have
\* no properties at all); f raises when it reads a property of a null entry
MapThrows(x) == ~IsArray(x) \/ \E i \in 1..Len(x.a) : Nullish(x.a[i])

\* lines 193-199, the callback
NormProduct(p) ==
  Obj([name |-> OrElse(Get(p, "name"), Str("Unnamed Product")),
       description |-> OrElse(Get(p, "description"), Str("")),
       usageTime |-> IF IsArray(Get(p, "usageTime"))
                     THEN Get(p, "usageTime") ELSE Arr(<<>>),
       frequency |-> OrElse(Get(p, "frequency"), Str("")),
       conflictsWith |-> IF IsArray(Get(p, "conflictsWith"))
                         THEN Get(p, "conflictsWith") ELSE Arr(<<>>)])

\* lines 206-210, the callback
Participant(p) ==
  IF p.t = "str" THEN p
  ELSE IF Truthy(p) /\ Truthy(Get(p, "product")) THEN Get(p, "product")
       ELSE Str(Stringify(p))

\* lines 203-213
ProductsStr(conflict) ==
  LET cp == Get(conflict, "products")
  IN  IF IsArray(cp) THEN [i \in 1..Len(cp.a) |-> Participant(cp.a[i])]
      ELSE IF cp.t = "str" THEN <<cp>>
           ELSE <<>>

\* lines 202-219, the callback
NormConflict(conflict) ==
  Obj([products |-> Arr(ProductsStr(conflict)),
       reason |-> OrElse(Get(conflict, "reason"), Str("unspecified"))])

\* lines 193-199: json.products = json.products.map(...)
NormalizeProducts(json) ==
  LET ps == Get(json, "products")
  IN  IF Nullish(json) \/ MapThrows(ps) THEN Threw
      ELSE Value(Put(json, "products",
                     Arr([i \in 1..Len(ps.a) |-> NormProduct(ps.a[i])])))

\* lines 202-219: json.conflicts = (json.conflicts || []).map(...)
NormalizeConflicts(json) ==
  LET cs == OrElse(Get(json, "conflicts"), Arr(<<>>))
  IN  IF MapThrows(cs) THEN Threw
      ELSE Value(Put(json, "conflicts",
                     Arr([i \in 1..Len(cs.a) |-> NormConflict(cs.a[i])])))

\* lines 222-224. The file is an ES module, hence strict: assigning a
\* property of a string, number or boolean raises a TypeError. A property
\* assigned to an array is not an element and res.json does not write it.
NormalizeRoutine(json) ==
  LET given == Get(json, "recommendedRoutine")
      rr == IF Truthy(given) THEN given
            ELSE Obj([AM |-> Arr(<<>>), PM |-> Arr(<<>>)])
      am == IF IsArray(Get(rr, "AM")) THEN Get(rr, "AM") ELSE Arr(<<>>)
      pm == IF IsArray(Get(rr, "PM")) THEN Get(rr, "PM") ELSE Arr(<<>>)
  IN  IF rr.t = "obj"
      THEN Value(Put(json, "recommendedRoutine", Put(Put(rr, "AM", am), "PM", pm)))
      ELSE IF rr.t = "arr" THEN Value(json)
           ELSE Threw

\* lines 192-224: the three repairs in order; the first TypeError ends them
Normalize(json) ==
  LET r1 == NormalizeProducts(json)
      r2 == IF r1.threw THEN Threw ELSE NormalizeConflicts(r1.json)
  IN  IF r2.threw THEN Threw ELSE NormalizeRoutine(r2.json)

\* ------------------------------------------------- the email formatter
Chunk(section, str) == [sec |-> section, s |-> str]

\* x.forEach(f) raises a TypeError unless x is an array; f raises when it
\* reads a property of a null entry
ForEachThrows(x) == MapThrows(x)

\* lines 250-252
ProductChunk(p) ==
  LET usageTime == IF IsArray(Get(p, "usageTime"))
                   THEN Join(Get(p, "usageTime"), ", ") ELSE "unspecified"
      frequency == JsString(OrElse(Get(p, "frequency"), Str("unspecified")))
  IN  Chunk("products",
            "- " \o JsString(Get(p, "name")) \o " "
            \o JsString(Get(p, "description"))
            \o "\n  Usage Time: " \o usageTime
            \o "\n  Frequency: " \o frequency \o "\n\n")

\* lines 259 and 264
RoutineChunk(section, i, item) ==
  Chunk(section, ToString(i) \o ". " \o JsString(item) \o "\n")

\* lines 271-273
ConflictChunk(conflict) ==
  LET products == IF IsArray(Get(conflict, "products"))
                  THEN Join(Get(conflict, "products"), " & ") ELSE "unknown"
      reason == JsString(OrElse(Get(conflict, "reason"), Str("unspecified")))
  IN  Chunk("conflicts", "- " \o products \o " " \o reason \o "\n")

\* line 268 without its length test: if (result.conflicts)
HasConflictsNoLength(result) == Truthy(Get(result, "conflicts"))

\* line 268: result.conflicts && result.conflicts.length > 0. An array has
\* its length, a truthy string a positive length, anything else none.
HasConflicts(result) ==
  LET cs == Get(result, "conflicts")
  IN  (cs.t = "arr" /\ Len(cs.a) > 0) \/ (cs.t = "str" /\ cs.s # "")

\* lines 244-278. The text is the concatenation of the chunks, in order;
\* each chunk is one `text +=` and carries the section that appended it.
\* The pictographs that open the headings are left out.
formatAnalysisToText(result) ==
  LET ps == Get(result, "products")
      rr == Get(result, "recommendedRoutine")
      am == OrElse(Get(rr, "AM"), Arr(<<>>))
      pm == OrElse(Get(rr, "PM"), Arr(<<>>))
      cs == Get(result, "conflicts")
      title == <<Chunk("title", "Your Skincare Analysis Results:\n\n")>>
      productsPart ==
        IF Truthy(ps)
        THEN <<Chunk("products", "Products Analysis:\n")>>
             \o [i \in 1..Len(ps.a) |-> ProductChunk(ps.a[i])]
        ELSE <<>>
      routinePart ==
        IF Truthy(rr)
        THEN <<Chunk("am", "Recommended AM Routine:\n")>>
             \o [i \in 1..Len(am.a) |-> RoutineChunk("am", i, am.a[i])]
             \o <<Chunk("pm", "\nRecommended PM Routine:\n")>>
             \o [i \in 1..Len(pm.a) |-> RoutineChunk("pm", i, pm.a[i])]
        ELSE <<>>
      conflictsPart ==
        IF HasConflicts(result)
        THEN <<Chunk("conflicts", "\nConflicts:\n")>>
             \o [i \in 1..Len(cs.a) |-> ConflictChunk(cs.a[i])]
        ELSE <<>>
  IN  IF \/ Truthy(ps) /\ ForEachThrows(ps)
         \/ Truthy(rr) /\ (~IsArray(am) \/ ~IsArray(pm))
         \/ HasConflicts(result) /\ ForEachThrows(cs)
      THEN [threw |-> TRUE, text |-> <<>>]
      ELSE [threw |-> FALSE,
            text |-> title \o productsPart \o routinePart \o conflictsPart]

\* ------------------------------------------------------------ inputs
EmptyObj == Obj(NoFields)

\* o with the field set, or o itself when the field is to be absent
With(o, key, val) == IF val = Undef THEN o ELSE Put(o, key, val)

\* sequences over S of length 0..n
SeqsUpTo(S, n) == UNION {[1..k -> S] : k \in 0..n}

\* request bodies of POST /analyze: the `products` value
RequestEntries == {Obj([name |-> Str("Retinol"), type |-> Str("serum")]), Null}
RequestProducts ==
  {Undef, Null, Str("Retinol"), Num(0), EmptyObj}
    \cup {Arr(l) : l \in SeqsUpTo(RequestEntries, MaxEntries)}

\* product entries of a model reply
GoodProduct ==
  Obj([name |-> Str("Cleanser"), description |-> Str("Cleans"),
       usageTime |-> Arr(<<Str("AM"), Str("PM")>>), frequency |-> Str("daily"),
       conflictsWith |-> Arr(<<>>)])
ReplyProductEntries ==
  {GoodProduct,
   Obj([name |-> Str("Toner")]),
   Obj([name |-> Num(5), description |-> Num(0), usageTime |-> Str("AM"),
        frequency |-> Arr(<<Str("daily")>>), conflictsWith |-> Null]),
   Str("Serum"),
   Null}
ReplyProducts ==
  {Undef, Null, Str("none"), EmptyObj}
    \cup {Arr(l) : l \in SeqsUpTo(ReplyProductEntries, MaxEntries)}

\* participants of a source conflict
Participants ==
  {Str("Retinol"), Str("Vitamin C"),
   Obj([product |-> Str("Niacinamide")]),
   Obj([product |-> Num(5)]),
   Obj([product |-> Obj([product |-> Str("BHA")])]),
   Obj([name |-> Str("AHA")]),
   Num(7),
   Null}
Reasons == {Undef, Str("irritation"), Num(3), Str("")}

PairConflict ==
  Obj([productA |-> Str("Retinol"), productB |-> Str("Vitamin C"),
       explanation |-> Str("irritation")])
ItemsConflict ==
  Obj([items |-> Arr(<<Str("Retinol"), Str("Vitamin C")>>),
       reason |-> Str("irritation")])
ListConflict ==
  Obj([products |-> Arr(<<Str("Retinol"), Str("Vitamin C")>>),
       reason |-> Str("irritation")])
StringConflict ==
  Obj([products |-> Str("Retinol"), reason |-> Str("irritation")])
BareConflict == Str("Retinol with Vitamin C")

ConflictEntries ==
  {With(With(EmptyObj, "products", Arr(l)), "reason", r) :
      l \in SeqsUpTo(Participants, MaxParticipants), r \in Reasons}
    \cup {PairConflict, ItemsConflict, StringConflict, BareConflict, Null}
CoreConflicts == {ListConflict, PairConflict, ItemsConflict, StringConflict, Null}
ReplyConflicts ==
  {Undef, Null, Str("none"), EmptyObj}
    \cup {Arr(<<c>>) : c \in ConflictEntries}
    \cup {Arr(l) : l \in SeqsUpTo(CoreConflicts, MaxConflicts)}

GoodRoutine ==
  Obj([AM |-> Arr(<<Str("Cleanser")>>), PM |-> Arr(<<Str("Cleanser"), Str("Retinol")>>)])
ReplyRoutines ==
  {Undef, Null, Str("AM only"), Arr(<<Str("Cleanser")>>), EmptyObj, GoodRoutine,
   Obj([AM |-> Str("Cleanser"), PM |-> Arr(<<>>)]),
   Obj([AM |-> Arr(<<Str("Cleanser")>>)])}

Reply(ps, rr, cs) ==
  With(With(With(EmptyObj, "products", ps), "recommendedRoutine", rr), "conflicts", cs)

\* the JSON values a model reply can hold: a well-formed reply with one of
\* its three fields varied, and values that are not objects
ReplyValues ==
  {Reply(ps, GoodRoutine, Arr(<<ListConflict>>)) : ps \in ReplyProducts}
    \cup {Reply(Arr(<<GoodProduct>>), rr, Arr(<<>>)) : rr \in ReplyRoutines}
    \cup {Reply(Arr(<<GoodProduct>>), GoodRoutine, cs) : cs \in ReplyConflicts}
    \cup {Null, Num(5), Str("ok"), Arr(<<>>), EmptyObj}

GoodReply == Reply(Arr(<<GoodProduct>>), GoodRoutine, Arr(<<ListConflict>>))

\* the reply texts: every value bare, and a few of them inside the wrappings
\* a model produces (padding, code fences, prose)
Wrappings(body) ==
  {<<Tok("ws"), body, Tok("nl")>>,
   <<Tok("fence"), Tok("nl"), body, Tok("nl"), Tok("fence")>>,
   <<Tok("fence"), Tok("word"), Tok("nl"), body, Tok("nl"), Tok("fence"), Tok("nl")>>,
   <<Tok("fence"), Tok("word"), Tok("nl"), body>>,
   <<Tok("fence"), body, Tok("fence")>>,
   <<body, Tok("nl"), Tok("fence")>>,
   <<Tok("junk"), Tok("nl"), body>>}
ReplyTexts ==
  {<<JsonTok(v)>> : v \in ReplyValues}
    \cup Wrappings(JsonTok(GoodReply))
    \cup Wrappings(JsonTok(EmptyObj))
    \cup Wrappings(Tok("junk"))
    \cup {<<>>}

\* request bodies of POST /send-email
Emails == {Undef, Str(""), Str("user@example.com")}
ResultProducts ==
  {Undef, Arr(<<>>), Arr(<<GoodProduct>>), Arr(<<GoodProduct, Obj([name |-> Str("Toner")])>>),
   Str("none"), Arr(<<Null>>)}
ResultRoutines ==
  {Undef, GoodRoutine, EmptyObj, Obj([AM |-> Str("Cleanser"), PM |-> Arr(<<>>)])}
ResultConflicts ==
  {Undef, Arr(<<>>), Arr(<<ListConflict>>), Arr(<<StringConflict, ListConflict>>),
   Arr(<<Null>>), Str("none")}
AnalysisResults ==
  {Reply(ps, rr, cs) : ps \in ResultProducts, rr \in ResultRoutines, cs \in ResultConflicts}
    \cup {Undef, Null}

\* ------------------------------------------------------------- state
VARIABLES
  pc,             \* "idle", "awaitGenerate", "awaitFallback", "awaitSend", "done"
  route,          \* "none", "analyze", "send-email"
  products,       \* req.body.products of the /analyze request
  calls,          \* calls made on the generative-model client, in order
  text,           \* the reply text: [got, raw, clean]
  parsed,         \* JSON.parse of the clean text: [tried, threw, json]
  responses,      \* HTTP responses sent for the request, in order
  rejected,       \* the handler's promise rejected (an exception escaped it)
  email,          \* req.body.email of the /send-email request
  analysisResult, \* req.body.analysisResult of the /send-email request
  sent            \* messages handed to sgMail.send, in order: [msg, result]

vars ==
  << pc, route, products, calls, text, parsed, responses, rejected, email,
     analysisResult, sent >>

primaryModel == "models/gemini-2.5-flash-preview-09-2025"
fallbackModel == "models/gemini-2.5-flash"

Response(code, err, msg, json, from) ==
  [status |-> code, error |-> err, message |-> msg, body |-> json, by |-> from]

BadRequest == Response(400, "Products array is required.", "", Undef, "handler")
InvalidJson == Response(500, "Gemini returned invalid JSON.", "", Undef, "handler")
FailedToProcess == Response(500, "Failed to process the request.", "", Undef, "handler")
Ok(json) == Response(200, "", "", json, "handler")
EmailRequired ==
  Response(400, "Email and analysisResult are required.", "", Undef, "handler")
EmailSent ==
  Response(200, "",
           "Email sent successfully! Please check your spam folder if you do not see it.",
           Undef, "handler")
FailedToSend == Response(500, "Failed to send email.", "", Undef, "handler")
\* the answer of the framework's own error handler
FrameworkError == Response(500, "", "", Undef, "express")

GetModel(name, outcome) ==
  [op |-> "getGenerativeModel", model |-> name, result |-> outcome, prompt |-> <<>>]
Generate(name, lines) ==
  [op |-> "generateContent", model |-> name, result |-> "pending", prompt |-> lines]

\* the pending call, which is the last one, settles
Settle(log, outcome) == [log EXCEPT ![Len(log)].result = outcome]

NoText == [got |-> FALSE, raw |-> <<>>, clean |-> <<>>]
NotParsed == [tried |-> FALSE, threw |-> FALSE, json |-> Undef]

Init ==
  /\ pc = "idle"
  /\ route = "none"
  /\ products = Undef
  /\ calls = <<>>
  /\ text = NoText
  /\ parsed = NotParsed
  /\ responses = <<>>
  /\ rejected = FALSE
  /\ email = Undef
  /\ analysisResult = Undef
  /\ sent = <<>>

\* line 117 without its length test
ProductsMissingNoLength(ps) == ~Truthy(ps) \/ ~IsArray(ps)

\* line 117
ProductsMissing(ps) == ~Truthy(ps) \/ ~IsArray(ps) \/ Len(ps.a) = 0

\* line 138: the lines of the prompt that list the products; reading p.name
\* of a null entry raises a TypeError
PromptThrows(ps) == \E i \in 1..Len(ps.a) : Nullish(ps.a[i])
PromptLines(ps) ==
  [i \in 1..Len(ps.a) |->
     ToString(i) \o ". " \o JsString(Get(ps.a[i], "name"))
     \o " (" \o JsString(Get(ps.a[i], "type")) \o ")"]

\* An exception that leaves an async handler rejects its promise. The
\* handler sends nothing; what the client then gets depends on the Express
\* release in use: version 4 ignores the rejection and the request stays
\* unanswered, version 5 passes it to its error handler, which answers 500.
Escape(express) ==
  /\ pc' = "done"
  /\ rejected' = TRUE
  /\ responses' = IF express = 5 THEN Append(responses, FrameworkError) ELSE responses

\* lines 228-231, the outer catch
Catch ==
  /\ pc' = "done"
  /\ responses' = Append(responses, FailedToProcess)
  /\ UNCHANGED rejected

\* ------------------------------------------------------ POST /analyze
\* lines 115-172: validation, model handle selection, the prompt and the
\* first generateContent call. primaryOk and fallbackOk say whether
\* getGenerativeModel returns or throws for the two model names.
AnalyzeRequest(ps, primaryOk, fallbackOk, express) ==
  /\ pc = "idle"
  /\ route' = "analyze"
  /\ products' = ps
  /\ UNCHANGED <<text, parsed, email, analysisResult, sent>>
  /\ IF ProductsMissing(ps)
     THEN /\ responses' = Append(responses, BadRequest)
          /\ pc' = "done"
          /\ UNCHANGED <<calls, rejected>>
     ELSE LET handle ==
                IF primaryOk
                THEN <<GetModel(primaryModel, "ok")>>
                ELSE <<GetModel(primaryModel, "threw"),
                       GetModel(fallbackModel, IF fallbackOk THEN "ok" ELSE "threw")>>
              model == IF primaryOk THEN primaryModel ELSE fallbackModel
          IN  IF (~primaryOk /\ ~fallbackOk) \/ PromptThrows(ps)
              THEN /\ calls' = calls \o handle
                   /\ Escape(express)
              ELSE /\ calls' = calls \o handle \o <<Generate(model, PromptLines(ps))>>
                   /\ pc' = "awaitGenerate"
                   /\ UNCHANGED <<responses, rejected>>

\* what result.response.text() gives at line 179: it raises (a blocked or
\* empty candidate) or returns the text
ReplyOutcomes ==
  {[threw |-> TRUE, raw |-> <<>>]} \cup {[threw |-> FALSE, raw |-> t] : t \in ReplyTexts}

\* lines 179-231: the text, its cleaning, parsing, normalization, the answer
ProcessReply(reply) ==
  IF reply.threw
  THEN /\ Catch
       /\ UNCHANGED <<text, parsed>>
  ELSE LET clean == CleanText(reply.raw)
           p == ParseJson(clean)
           n == Normalize(p.json)
       IN  /\ text' = [got |-> TRUE, raw |-> reply.raw, clean |-> clean]
           /\ parsed' = [tried |-> TRUE, threw |-> p.threw, json |-> p.json]
           /\ IF p.threw
              THEN /\ responses' = Append(responses, InvalidJson)
                   /\ pc' = "done"
                   /\ UNCHANGED rejected
              ELSE IF n.threw
                   THEN Catch
                   ELSE /\ responses' = Append(responses, Ok(n.json))
                        /\ pc' = "done"
                        /\ UNCHANGED rejected

\* line 172 resolves
GenerateResolves(reply) ==
  /\ pc = "awaitGenerate"
  /\ calls' = Settle(calls, "ok")
  /\ ProcessReply(reply)
  /\ UNCHANGED <<route, products, email, analysisResult, sent>>

\* line 172 rejects: lines 173-176
GenerateRejects(fallbackOk) ==
  /\ pc = "awaitGenerate"
  /\ UNCHANGED <<route, products, text, parsed, email, analysisResult, sent>>
  /\ IF fallbackOk
     THEN /\ calls' = Settle(calls, "threw")
                        \o <<GetModel(fallbackModel, "ok"),
                             Generate(fallbackModel, calls[Len(calls)].prompt)>>
          /\ pc' = "awaitFallback"
          /\ UNCHANGED <<responses, rejected>>
     ELSE /\ calls' = Settle(calls, "threw") \o <<GetModel(fallbackModel, "threw")>>
          /\ Catch

\* line 176 resolves
FallbackResolves(reply) ==
  /\ pc = "awaitFallback"
  /\ calls' = Settle(calls, "ok")
  /\ ProcessReply(reply)
  /\ UNCHANGED <<route, products, email, analysisResult, sent>>

\* line 176 rejects: the outer catch
FallbackRejects ==
  /\ pc = "awaitFallback"
  /\ calls' = Settle(calls, "threw")
  /\ Catch
  /\ UNCHANGED <<route, products, text, parsed, email, analysisResult, sent>>

\* ---------------------------------------------------- POST /send-email
Message(to, body) ==
  [to |-> to, from |-> "EMAIL_FROM", subject |-> "Your Skincare Products Analysis",
   text |-> body]

\* lines 236-290: validation, formatting and the sgMail.send call
SendEmailRequest(em, ar, express) ==
  /\ pc = "idle"
  /\ route' = "send-email"
  /\ email' = em
  /\ analysisResult' = ar
  /\ UNCHANGED <<products, calls, text, parsed>>
  /\ IF ~Truthy(em) \/ ~Truthy(ar)
     THEN /\ responses' = Append(responses, EmailRequired)
          /\ pc' = "done"
          /\ UNCHANGED <<sent, rejected>>
     ELSE LET formatted == formatAnalysisToText(ar)
          IN  IF formatted.threw
              THEN /\ Escape(express)
                   /\ UNCHANGED sent
              ELSE /\ sent' = Append(sent, [msg |-> Message(em, formatted.text),
                                            result |-> "pending"])
                   /\ pc' = "awaitSend"
                   /\ UNCHANGED <<responses, rejected>>

\* line 290 resolves: lines 291-292
SendResolves ==
  /\ pc = "awaitSend"
  /\ sent' = Settle(sent, "ok")
  /\ responses' = Append(responses, EmailSent)
  /\ pc' = "done"
  /\ UNCHANGED <<route, products, calls, text, parsed, rejected, email, analysisResult>>

\* line 290 rejects: lines 293-296
SendRejects ==
  /\ pc = "awaitSend"
  /\ sent' = Settle(sent, "threw")
  /\ responses' = Append(responses, FailedToSend)
  /\ pc' = "done"
  /\ UNCHANGED <<route, products, calls, text, parsed, rejected, email, analysisResult>>

Next ==
  \/ \E ps \in RequestProducts, primaryOk \in BOOLEAN, fallbackOk \in BOOLEAN,
        express \in {4, 5} :
       AnalyzeRequest(ps, primaryOk, fallbackOk, express)
  \/ \E reply \in ReplyOutcomes : GenerateResolves(reply)
  \/ \E fallbackOk \in BOOLEAN : GenerateRejects(fallbackOk)
  \/ \E reply \in ReplyOutcomes : FallbackResolves(reply)
  \/ FallbackRejects
  \/ \E em \in Emails, ar \in AnalysisResults, express \in {4, 5} :
       SendEmailRequest(em, ar, express)
  \/ SendResolves
  \/ SendRejects

Spec == Init /\ [][Next]_vars

\* ------------------------------------------------------------ claims
Answered200 ==
  route = "analyze" /\ pc = "done" /\ Len(responses) = 1 /\ responses[1].status = 200

\* the `products` value of the request is missing, not an array, or empty
NoProductsGiven == products.t # "arr" \/ Len(products.a) = 0

GenerateCalls == SelectSeq(calls, LAMBDA c : c.op = "generateContent")

\* C1: a POST /analyze request whose `products` is missing, not an array or
\* empty is answered 400 "Products array is required." and, on that request,
\* no model handle is obtained and generateContent is never invoked.
C1_MissingProductsRejected ==
  (route = "analyze" /\ NoProductsGiven)
    => /\ pc = "done"
       /\ responses = <<BadRequest>>
       /\ calls = <<>>
       /\ ~rejected

C1_Witness ==
  /\ route = "analyze"
  /\ products = Arr(<<>>)
  /\ responses = <<BadRequest>>

\* C2: content generation is invoked at most twice per request, the second
\* invocation is on the fallback model and starts only after the first has
\* failed, and a failed attempt on the fallback model (obtaining its handle
\* or generating content with it) is never followed by another attempt.
C2_FallbackNeverRetried ==
  route = "analyze"
    => /\ Len(GenerateCalls) <= 2
       /\ Len(GenerateCalls) = 2
            => /\ GenerateCalls[2].model = fallbackModel
               /\ GenerateCalls[1].result = "threw"
       /\ \A i \in 1..Len(calls) :
            (calls[i].model = fallbackModel /\ calls[i].result = "threw")
              => i = Len(calls)

\* C3: a finished request with a non-empty products list is answered 500
\* "Gemini returned invalid JSON." exactly when a reply text was obtained
\* and cannot be parsed; every other failure is answered 500 "Failed to
\* process the request."
C3_ErrorMessages ==
  (route = "analyze" /\ pc = "done" /\ ~NoProductsGiven)
    => IF text.got /\ parsed.threw
       THEN responses = <<InvalidJson>>
       ELSE Answered200 \/ responses = <<FailedToProcess>>

\* C4: whatever JSON value the reply parses to, normalization completes and
\* the request is answered 200, never 500.
C4_NormalizationNeverFails ==
  (route = "analyze" /\ pc = "done" /\ parsed.tried /\ ~parsed.threw)
    => Answered200

\* C5: in every 200 response, every entry of `conflicts` has a `products`
\* list of at least 2 entries.
C5_ConflictsHaveTwoParticipants ==
  Answered200
    => LET cs == Get(responses[1].body, "conflicts").a
       IN  \A i \in 1..Len(cs) : Len(Get(cs[i], "products").a) >= 2

\* C6: normalization applied to the body of a 200 response gives that body
\* back.
C6_NormalizationIdempotent ==
  Answered200 => Normalize(responses[1].body) = Value(responses[1].body)

\* C7: a source conflict {productA, productB, explanation} is normalized to
\* {products: [productA, productB], reason: explanation}, and a source
\* conflict with an `items` array to {products: items, reason}.
C7_LegacyConflictShapes ==
  Answered200
    => LET src == Get(parsed.json, "conflicts").a
           out == Get(responses[1].body, "conflicts").a
       IN  \A i \in 1..Len(src) :
             (src[i] \in {PairConflict, ItemsConflict}) => out[i] = ListConflict

IsString(v) == v.t = "str"
AllStrings(v) == IsArray(v) /\ \A i \in 1..Len(v.a) : IsString(v.a[i])

\* C8: the body of every 200 response has the AnalysisResult schema: each
\* product has string name, description and frequency and array usageTime
\* and conflictsWith; recommendedRoutine has array AM and PM; each conflict
\* has an array `products` of strings, one per source slot, and a string
\* reason.
C8_ResponseSchema ==
  Answered200
    => LET body == responses[1].body
           ps == Get(body, "products")
           rr == Get(body, "recommendedRoutine")
           cs == Get(body, "conflicts")
           src == Get(parsed.json, "conflicts")
       IN  /\ IsArray(ps)
           /\ \A i \in 1..Len(ps.a) :
                /\ IsString(Get(ps.a[i], "name"))
                /\ IsString(Get(ps.a[i], "description"))
                /\ IsString(Get(ps.a[i], "frequency"))
                /\ IsArray(Get(ps.a[i], "usageTime"))
                /\ IsArray(Get(ps.a[i], "conflictsWith"))
           /\ IsArray(Get(rr, "AM")) /\ IsArray(Get(rr, "PM"))
           /\ IsArray(cs)
           /\ \A i \in 1..Len(cs.a) :
                /\ AllStrings(Get(cs.a[i], "products"))
                /\ IsString(Get(cs.a[i], "reason"))
                /\ IsArray(Get(src.a[i], "products"))
                     => Len(Get(cs.a[i], "products").a)
                          = Len(Get(src.a[i], "products").a)

\* the analysisResult has the AnalysisResult shape, sections possibly
\* missing: `products` is absent or an array of objects, `recommendedRoutine`
\* is absent or an object whose AM and PM are absent or arrays
ResultShaped(ar) ==
  LET ps == Get(ar, "products")
      rr == Get(ar, "recommendedRoutine")
  IN  /\ ar.t = "obj"
      /\ ps = Undef \/ (IsArray(ps) /\ \A i \in 1..Len(ps.a) : ps.a[i].t = "obj")
      /\ rr = Undef
           \/ /\ rr.t = "obj"
              /\ Get(rr, "AM") = Undef \/ IsArray(Get(rr, "AM"))
              /\ Get(rr, "PM") = Undef \/ IsArray(Get(rr, "PM"))

EmptyConflictsRequest ==
  /\ route = "send-email"
  /\ Truthy(email)
  /\ ResultShaped(analysisResult)
  /\ Get(analysisResult, "conflicts") = Arr(<<>>)

C10_ExactlyOneResponse ==
  (route = "analyze" /\ pc = "done" /\ ~NoProductsGiven)
    => /\ Len(responses) = 1
       /\ responses[1].status \in {200, 500}

====
